---- MODULE Spec2Model ----
(***************************************************************************)
(* Model of the PC-speaker melody player (src/src/main.rs): the menu loop  *)
(* of main, the preset melodies, the custom melody file parser of          *)
(* play_custom_song and the playback through kernel_beep.                  *)
(*                                                                         *)
(* Text is modelled character by character: a line or a token is a tuple   *)
(* of one-character strings.  A u32 is the pair <<hi, lo>> of its two      *)
(* 16-bit halves, so that the whole range 0 .. 2^32 - 1 of the Rust type   *)
(* is represented and the overflow check of the numeric parse is the       *)
(* program's.                                                              *)
(*                                                                         *)
(* Not modelled: the Ctrl-C handler (main.rs 520-524), which ends the      *)
(* process from outside at any point, and what goes to stderr.             *)
(***************************************************************************)
EXTENDS Integers, Sequences, FiniteSets, TLC

\* ---------------------------------------------------------------------
\* Program constants (main.rs 14-67)
\* ---------------------------------------------------------------------

HZ == 1193180
NOTE_C4 == 262
NOTE_CS4 == 277
NOTE_D4 == 294
NOTE_DS4 == 311
NOTE_E4 == 330
NOTE_F4 == 349
NOTE_FS4 == 370
NOTE_G4 == 392
NOTE_GS4 == 415
NOTE_A4 == 440
NOTE_AS4 == 466
NOTE_B4 == 494
NOTE_C5 == 523
NOTE_CS5 == 554
NOTE_D5 == 587
NOTE_DS5 == 622
NOTE_E5 == 659
NOTE_F5 == 698
NOTE_FS5 == 740
NOTE_G5 == 784
NOTE_GS5 == 831
NOTE_A5 == 880
NOTE_AS5 == 932
NOTE_B5 == 988
NOTE_C3 == 131
NOTE_CS3 == 139
NOTE_D3 == 147
NOTE_DS3 == 156
NOTE_E3 == 165
NOTE_F3 == 175
NOTE_FS3 == 185
NOTE_G3 == 196
NOTE_GS3 == 208
NOTE_A3 == 220
NOTE_AS3 == 233
NOTE_B3 == 247
NOTE_REST == 0
WHOLE == 1000
HALF == 500
QUARTER == 250
EIGHTH == 125
SIXTEENTH == 63
NOKIA_SIXTEENTH == 95

\* ---------------------------------------------------------------------
\* u32 values: <<hi, lo>> with value hi * 2^16 + lo
\* ---------------------------------------------------------------------
Half == 2^16

\* The u32 of a constant of the program (all of them are below 2^31).
U32(n) == <<n \div Half, n % Half>>

\* struct Note and Note::new
NoteNew(frequency, duration_ms) ==
  [frequency |-> U32(frequency), duration_ms |-> U32(duration_ms)]

\* ---------------------------------------------------------------------
\* Characters and str methods
\* ---------------------------------------------------------------------
LowerLetters ==
  <<"a", "b", "c", "d", "e", "f", "g", "h", "i", "j", "k", "l", "m",
    "n", "o", "p", "q", "r", "s", "t", "u", "v", "w", "x", "y", "z">>
UpperLetters ==
  <<"A", "B", "C", "D", "E", "F", "G", "H", "I", "J", "K", "L", "M",
    "N", "O", "P", "Q", "R", "S", "T", "U", "V", "W", "X", "Y", "Z">>
DigitChars == <<"0", "1", "2", "3", "4", "5", "6", "7", "8", "9">>

Range(s) == {s[i] : i \in DOMAIN s}
IndexOf(s, c) == CHOOSE i \in DOMAIN s : s[i] = c

\* char::is_whitespace, on the characters of the model
is_whitespace(c) == c \in {" ", "\t"}

\* char::to_uppercase
char_to_uppercase(c) ==
  IF c \in Range(LowerLetters) THEN UpperLetters[IndexOf(LowerLetters, c)] ELSE c

\* str::to_uppercase
to_uppercase(s) == [i \in DOMAIN s |-> char_to_uppercase(s[i])]

\* str::trim
RECURSIVE trim_start(_)
trim_start(s) ==
  IF s # <<>> /\ is_whitespace(Head(s)) THEN trim_start(Tail(s)) ELSE s
RECURSIVE trim_end(_)
trim_end(s) ==
  IF s # <<>> /\ is_whitespace(s[Len(s)])
  THEN trim_end(SubSeq(s, 1, Len(s) - 1)) ELSE s
\* Mutant: the line is used as read, untrimmed
trim_nothing(s) == s
trim(s) == trim_end(trim_start(s))

\* str::is_empty, str::starts_with(char)
is_empty(s) == s = <<>>
starts_with(s, c) == s # <<>> /\ Head(s) = c

\* str::split_whitespace().collect(): the maximal runs of non-whitespace
RECURSIVE split_from(_, _, _)
split_from(s, cur, acc) ==
  IF s = <<>> THEN (IF cur = <<>> THEN acc ELSE Append(acc, cur))
  ELSE IF is_whitespace(Head(s))
       THEN split_from(Tail(s), <<>>, IF cur = <<>> THEN acc ELSE Append(acc, cur))
       ELSE split_from(Tail(s), Append(cur, Head(s)), acc)
split_whitespace(s) == split_from(s, <<>>, <<>>)

\* <u32 as FromStr>::from_str: an optional leading '+', then decimal digits
\* accumulated with checked_mul(10) and checked_add(digit).  Err for the
\* empty string, a lone sign, a non-digit, or a value above u32::MAX.
ParseErr == [ok |-> FALSE, val |-> <<0, 0>>]
\* Mutant: wrapping instead of checked arithmetic
RECURSIVE parse_digits_wrapping(_, _)
parse_digits_wrapping(s, acc) ==
  IF s = <<>> THEN [ok |-> TRUE, val |-> acc]
  ELSE IF Head(s) \notin Range(DigitChars) THEN ParseErr
  ELSE LET d  == IndexOf(DigitChars, Head(s)) - 1
           lo == acc[2] * 10 + d
           hi == acc[1] * 10 + (lo \div Half)
       IN  parse_digits_wrapping(Tail(s), <<hi % Half, lo % Half>>)
RECURSIVE parse_digits(_, _)
parse_digits(s, acc) ==
  IF s = <<>> THEN [ok |-> TRUE, val |-> acc]
  ELSE IF Head(s) \notin Range(DigitChars) THEN ParseErr
  ELSE LET d  == IndexOf(DigitChars, Head(s)) - 1
           lo == acc[2] * 10 + d
           hi == acc[1] * 10 + (lo \div Half)
       IN  IF hi >= Half THEN ParseErr
           ELSE parse_digits(Tail(s), <<hi, lo % Half>>)
parse_u32(s) ==
  IF s = <<>> THEN ParseErr
  ELSE IF Head(s) \in {"+", "-"} /\ Len(s) = 1 THEN ParseErr
  ELSE IF Head(s) = "+" THEN parse_digits(Tail(s), <<0, 0>>)
  ELSE parse_digits(s, <<0, 0>>)

\* ---------------------------------------------------------------------
\* play_custom_song: the lookup tables (main.rs 388-435)
\* ---------------------------------------------------------------------
note_map ==
     <<"C", "3">> :> U32(NOTE_C3) @@ <<"C", "S", "3">> :> U32(NOTE_CS3) @@ <<"D", "3">> :> U32(NOTE_D3)
  @@ <<"D", "S", "3">> :> U32(NOTE_DS3) @@ <<"E", "3">> :> U32(NOTE_E3) @@ <<"F", "3">> :> U32(NOTE_F3)
  @@ <<"F", "S", "3">> :> U32(NOTE_FS3) @@ <<"G", "3">> :> U32(NOTE_G3) @@ <<"G", "S", "3">> :> U32(NOTE_GS3)
  @@ <<"A", "3">> :> U32(NOTE_A3) @@ <<"A", "S", "3">> :> U32(NOTE_AS3) @@ <<"B", "3">> :> U32(NOTE_B3)
  @@ <<"C", "4">> :> U32(NOTE_C4) @@ <<"C", "S", "4">> :> U32(NOTE_CS4) @@ <<"D", "4">> :> U32(NOTE_D4)
  @@ <<"D", "S", "4">> :> U32(NOTE_DS4) @@ <<"E", "4">> :> U32(NOTE_E4) @@ <<"F", "4">> :> U32(NOTE_F4)
  @@ <<"F", "S", "4">> :> U32(NOTE_FS4) @@ <<"G", "4">> :> U32(NOTE_G4) @@ <<"G", "S", "4">> :> U32(NOTE_GS4)
  @@ <<"A", "4">> :> U32(NOTE_A4) @@ <<"A", "S", "4">> :> U32(NOTE_AS4) @@ <<"B", "4">> :> U32(NOTE_B4)
  @@ <<"C", "5">> :> U32(NOTE_C5) @@ <<"C", "S", "5">> :> U32(NOTE_CS5) @@ <<"D", "5">> :> U32(NOTE_D5)
  @@ <<"D", "S", "5">> :> U32(NOTE_DS5) @@ <<"E", "5">> :> U32(NOTE_E5) @@ <<"F", "5">> :> U32(NOTE_F5)
  @@ <<"F", "S", "5">> :> U32(NOTE_FS5) @@ <<"G", "5">> :> U32(NOTE_G5) @@ <<"G", "S", "5">> :> U32(NOTE_GS5)
  @@ <<"A", "5">> :> U32(NOTE_A5) @@ <<"A", "S", "5">> :> U32(NOTE_AS5) @@ <<"B", "5">> :> U32(NOTE_B5)
  @@ <<"R", "E", "S", "T">> :> U32(NOTE_REST)

\* Mutant: H registered with the value of a whole note
duration_map_half_as_whole ==
     <<"W">> :> U32(WHOLE) @@ <<"H">> :> U32(WHOLE) @@ <<"Q">> :> U32(QUARTER)
  @@ <<"E">> :> U32(EIGHTH) @@ <<"S">> :> U32(SIXTEENTH)
duration_map ==
     <<"W">> :> U32(WHOLE) @@ <<"H">> :> U32(HALF) @@ <<"Q">> :> U32(QUARTER)
  @@ <<"E">> :> U32(EIGHTH) @@ <<"S">> :> U32(SIXTEENTH)

\* ---------------------------------------------------------------------
\* The preset melodies (main.rs 128-360)
\* ---------------------------------------------------------------------
\* play_super_mario 269-271: (QUARTER as f32 / 1.2) as u32 and
\* (EIGHTH as f32 / 1.2) as u32, the quotient truncated toward zero.
quarter == (QUARTER * 10) \div 12
eighth == (EIGHTH * 10) \div 12

play_tetris_theme_notes ==
  <<NoteNew(NOTE_E5, QUARTER), NoteNew(NOTE_B4, EIGHTH), NoteNew(NOTE_C5, EIGHTH),
     NoteNew(NOTE_D5, QUARTER), NoteNew(NOTE_C5, EIGHTH), NoteNew(NOTE_B4, EIGHTH),
     NoteNew(NOTE_A4, QUARTER), NoteNew(NOTE_A4, EIGHTH), NoteNew(NOTE_C5, EIGHTH),
     NoteNew(NOTE_E5, QUARTER), NoteNew(NOTE_D5, EIGHTH), NoteNew(NOTE_C5, EIGHTH),
     NoteNew(NOTE_B4, QUARTER), NoteNew(NOTE_B4, EIGHTH), NoteNew(NOTE_C5, EIGHTH),
     NoteNew(NOTE_D5, QUARTER), NoteNew(NOTE_E5, QUARTER), NoteNew(NOTE_C5, QUARTER),
     NoteNew(NOTE_A4, QUARTER), NoteNew(NOTE_A4, QUARTER), NoteNew(NOTE_REST, QUARTER),
     NoteNew(NOTE_D5, QUARTER), NoteNew(NOTE_F5, EIGHTH), NoteNew(NOTE_A5, QUARTER),
     NoteNew(NOTE_G5, EIGHTH), NoteNew(NOTE_F5, EIGHTH), NoteNew(NOTE_E5, QUARTER),
     NoteNew(NOTE_C5, EIGHTH), NoteNew(NOTE_E5, QUARTER), NoteNew(NOTE_D5, EIGHTH),
     NoteNew(NOTE_C5, EIGHTH), NoteNew(NOTE_B4, QUARTER), NoteNew(NOTE_B4, EIGHTH),
     NoteNew(NOTE_C5, EIGHTH), NoteNew(NOTE_D5, QUARTER), NoteNew(NOTE_E5, QUARTER),
     NoteNew(NOTE_C5, QUARTER), NoteNew(NOTE_A4, QUARTER), NoteNew(NOTE_A4, QUARTER),
     NoteNew(NOTE_REST, QUARTER) >>
play_jingle_bells_notes ==
  <<NoteNew(NOTE_E4, QUARTER), NoteNew(NOTE_E4, QUARTER), NoteNew(NOTE_E4, HALF),
     NoteNew(NOTE_E4, QUARTER), NoteNew(NOTE_E4, QUARTER), NoteNew(NOTE_E4, HALF),
     NoteNew(NOTE_E4, QUARTER), NoteNew(NOTE_G4, QUARTER), NoteNew(NOTE_C4, QUARTER),
     NoteNew(NOTE_D4, QUARTER), NoteNew(NOTE_E4, WHOLE), NoteNew(NOTE_F4, QUARTER),
     NoteNew(NOTE_F4, QUARTER), NoteNew(NOTE_F4, QUARTER), NoteNew(NOTE_F4, QUARTER),
     NoteNew(NOTE_F4, QUARTER), NoteNew(NOTE_E4, QUARTER), NoteNew(NOTE_E4, QUARTER),
     NoteNew(NOTE_E4, QUARTER), NoteNew(NOTE_E4, QUARTER), NoteNew(NOTE_D4, QUARTER),
     NoteNew(NOTE_D4, QUARTER), NoteNew(NOTE_E4, QUARTER), NoteNew(NOTE_D4, HALF),
     NoteNew(NOTE_G4, HALF), NoteNew(NOTE_E4, QUARTER), NoteNew(NOTE_E4, QUARTER),
     NoteNew(NOTE_E4, HALF), NoteNew(NOTE_E4, QUARTER), NoteNew(NOTE_E4, QUARTER),
     NoteNew(NOTE_E4, HALF), NoteNew(NOTE_E4, QUARTER), NoteNew(NOTE_G4, QUARTER),
     NoteNew(NOTE_C4, QUARTER), NoteNew(NOTE_D4, QUARTER), NoteNew(NOTE_E4, WHOLE) >>
play_imperial_march_notes ==
  <<NoteNew(NOTE_G4, QUARTER), NoteNew(NOTE_G4, QUARTER), NoteNew(NOTE_G4, QUARTER),
     NoteNew((NOTE_E4 * 3) \div 4, QUARTER), NoteNew(NOTE_B4, EIGHTH), NoteNew(NOTE_G4, QUARTER),
     NoteNew((NOTE_E4 * 3) \div 4, QUARTER), NoteNew(NOTE_B4, EIGHTH), NoteNew(NOTE_G4, HALF),
     NoteNew(NOTE_D5, QUARTER), NoteNew(NOTE_D5, QUARTER), NoteNew(NOTE_D5, QUARTER),
     NoteNew((NOTE_E5 * 3) \div 4, QUARTER), NoteNew(NOTE_B4, EIGHTH), NoteNew(NOTE_G4, QUARTER),
     NoteNew((NOTE_E4 * 3) \div 4, QUARTER), NoteNew(NOTE_B4, EIGHTH), NoteNew(NOTE_G4, HALF) >>
play_nokia_tune_notes ==
  <<NoteNew(NOTE_E5, NOKIA_SIXTEENTH), NoteNew(NOTE_D5, NOKIA_SIXTEENTH), NoteNew(NOTE_FS4, NOKIA_SIXTEENTH * 2),
     NoteNew(NOTE_GS4, NOKIA_SIXTEENTH * 2), NoteNew(NOTE_CS5, NOKIA_SIXTEENTH), NoteNew(NOTE_B4, NOKIA_SIXTEENTH),
     NoteNew(NOTE_D4, NOKIA_SIXTEENTH * 2), NoteNew(NOTE_E4, NOKIA_SIXTEENTH * 2), NoteNew(NOTE_B4, NOKIA_SIXTEENTH),
     NoteNew(NOTE_A4, NOKIA_SIXTEENTH), NoteNew(NOTE_CS4, NOKIA_SIXTEENTH * 2), NoteNew(NOTE_E4, NOKIA_SIXTEENTH * 2),
     NoteNew(NOTE_A4, NOKIA_SIXTEENTH * 4) >>
play_super_mario_intro ==
  <<NoteNew(NOTE_E5, eighth), NoteNew(NOTE_E5, eighth), NoteNew(NOTE_REST, eighth),
     NoteNew(NOTE_E5, eighth), NoteNew(NOTE_REST, eighth), NoteNew(NOTE_C5, eighth),
     NoteNew(NOTE_E5, quarter), NoteNew(NOTE_G5, quarter), NoteNew(NOTE_REST, quarter),
     NoteNew(NOTE_G4, quarter), NoteNew(NOTE_REST, quarter) >>
play_super_mario_main_theme ==
  <<NoteNew(NOTE_C5, quarter), NoteNew(NOTE_REST, eighth), NoteNew(NOTE_G4, eighth),
     NoteNew(NOTE_REST, quarter), NoteNew(NOTE_E4, quarter), NoteNew(NOTE_REST, eighth),
     NoteNew(NOTE_A4, quarter), NoteNew(NOTE_B4, quarter), NoteNew(NOTE_AS4, eighth),
     NoteNew(NOTE_A4, quarter), NoteNew(NOTE_G4, eighth * 3), NoteNew(NOTE_E5, eighth * 3),
     NoteNew(NOTE_G5, eighth * 3), NoteNew(NOTE_A5, quarter), NoteNew(NOTE_F5, eighth),
     NoteNew(NOTE_G5, eighth), NoteNew(NOTE_REST, eighth), NoteNew(NOTE_E5, quarter),
     NoteNew(NOTE_C5, eighth), NoteNew(NOTE_D5, eighth), NoteNew(NOTE_B4, quarter),
     NoteNew(NOTE_REST, quarter) >>
play_happy_birthday_notes ==
  <<NoteNew(NOTE_C4, QUARTER), NoteNew(NOTE_C4, EIGHTH), NoteNew(NOTE_D4, QUARTER + EIGHTH),
     NoteNew(NOTE_C4, QUARTER), NoteNew(NOTE_F4, QUARTER), NoteNew(NOTE_E4, HALF),
     NoteNew(NOTE_C4, QUARTER), NoteNew(NOTE_C4, EIGHTH), NoteNew(NOTE_D4, QUARTER + EIGHTH),
     NoteNew(NOTE_C4, QUARTER), NoteNew(NOTE_G4, QUARTER), NoteNew(NOTE_F4, HALF),
     NoteNew(NOTE_C4, QUARTER), NoteNew(NOTE_C4, EIGHTH), NoteNew(NOTE_C5, QUARTER + EIGHTH),
     NoteNew(NOTE_A4, QUARTER), NoteNew(NOTE_F4, QUARTER), NoteNew(NOTE_E4, QUARTER),
     NoteNew(NOTE_D4, QUARTER), NoteNew(NOTE_AS4, QUARTER), NoteNew(NOTE_AS4, EIGHTH),
     NoteNew(NOTE_A4, QUARTER + EIGHTH), NoteNew(NOTE_F4, QUARTER), NoteNew(NOTE_G4, QUARTER),
     NoteNew(NOTE_F4, HALF) >>

\* What each menu selection plays: the banner it prints, its notes and the
\* break it sleeps after every note (milliseconds).
Presets ==
  [tetris   |-> [banner |-> "Playing Tetris Theme...",
                 notes  |-> play_tetris_theme_notes, gap |-> 10],
   jingle   |-> [banner |-> "Playing Jingle Bells...",
                 notes  |-> play_jingle_bells_notes, gap |-> 50],
   imperial |-> [banner |-> "Playing Imperial March...",
                 notes  |-> play_imperial_march_notes, gap |-> 50],
   nokia    |-> [banner |-> "Playing Nokia Tune (Gran Vals)...",
                 notes  |-> play_nokia_tune_notes, gap |-> 30],
   mario    |-> [banner |-> "Playing Super Mario Bros theme...",
                 notes  |-> play_super_mario_intro \o play_super_mario_main_theme,
                 gap    |-> 5],
   birthday |-> [banner |-> "Playing Happy Birthday...",
                 notes  |-> play_happy_birthday_notes, gap |-> 20]]

\* main 544-551: the selection that starts each preset
PresetOf ==
  [c \in {"1", "2", "3", "4", "5", "6"} |->
     CASE c = "1" -> "tetris" [] c = "2" -> "jingle" [] c = "3" -> "imperial"
       [] c = "4" -> "nokia" [] c = "5" -> "mario"   [] c = "6" -> "birthday"]


\* ---------------------------------------------------------------------
\* play_custom_song: one iteration of the line loop (main.rs 446-493)
\* ---------------------------------------------------------------------
Resolved(v) == [ok |-> TRUE, val |-> v]

\* 465-476: table lookup of the upper-cased note token, else its numeric parse
resolve_frequency(note_name) ==
  IF note_name \in DOMAIN note_map THEN Resolved(note_map[note_name])
  ELSE parse_u32(note_name)

\* Mutant: the duration token is looked up as written
resolve_duration_as_written(duration_part) ==
  IF duration_part \in DOMAIN duration_map
  THEN Resolved(duration_map[duration_part])
  ELSE parse_u32(duration_part)

\* 479-490: table lookup of the upper-cased duration token, else the numeric
\* parse of the token as written
resolve_duration(duration_part) ==
  IF to_uppercase(duration_part) \in DOMAIN duration_map
  THEN Resolved(duration_map[to_uppercase(duration_part)])
  ELSE parse_u32(duration_part)

WarnFormat   == "Warning: Invalid line format: "
WarnNote     == "Warning: Unknown note name: "
WarnDuration == "Warning: Unknown duration: "
Warnings     == {WarnFormat, WarnNote, WarnDuration}

Said(msg, arg) == [msg |-> msg, arg |-> arg]
Skip         == [kind |-> "skip"]
Warn(m, a)   == [kind |-> "warn", said |-> Said(m, a)]
\* Mutant: the arguments of Note::new swapped
PushSwapped(f, d) == [kind |-> "push", note |-> [frequency |-> d, duration_ms |-> f]]
Push(f, d)   == [kind |-> "push", note |-> [frequency |-> f, duration_ms |-> d]]

\* The body of the loop for a line that was read: what it does to `notes`
\* (push) and to stdout (warn), or nothing (skip).
process_line(raw) ==
  LET line == trim(raw) IN
  IF is_empty(line) \/ starts_with(line, "#") THEN Skip
  ELSE
    LET parts == split_whitespace(line) IN
    IF Len(parts) # 2 THEN Warn(WarnFormat, line)
    ELSE
      LET note_name     == to_uppercase(parts[1])
          duration_part == parts[2]
          frequency     == resolve_frequency(note_name)
          duration      == resolve_duration(duration_part)
      IN  IF ~frequency.ok THEN Warn(WarnNote, note_name)
          ELSE IF ~duration.ok THEN Warn(WarnDuration, duration_part)
          ELSE Push(frequency.val, duration.val)

\* ---------------------------------------------------------------------
\* kernel_beep: the argument of the KDMKTONE ioctl (main.rs 87-94)
\* ---------------------------------------------------------------------
\* (HZ / frequency) & 0xffff in the low half, duration_ms << 16 (the low half of
\* duration_ms, its high half shifted out) in the high half.
beep_arg(frequency, duration_ms) ==
  IF frequency = <<0, 0>> THEN <<0, 0>>
  ELSE LET freq_val == IF frequency[1] >= 2^15 THEN 0
                       ELSE (HZ \div (frequency[1] * Half + frequency[2])) % Half
       IN  <<duration_ms[2], freq_val>>

\* ---------------------------------------------------------------------
\* The input space: melody files
\* ---------------------------------------------------------------------
MaxLines == 2

LinePool ==
  { <<"E", "4", " ", "Q">>,                                         \* 'E4 Q'
    <<"R", "E", "S", "T", " ", "Q">>,                               \* 'REST Q'
    <<"4", "4", "0", " ", "H">>,                                    \* '440 H'
    <<"c", "4", " ", "q">>,                                         \* 'c4 q'
    <<"C", "4", " ", "Q">>,                                         \* 'C4 Q'
    <<"4", "4", "0", " ", "1", "0", "0">>,                          \* '440 100'
    <<"4", "4", "0", " ", "0">>,                                    \* '440 0'
    <<"Z", "Z", "4", " ", "Q">>,                                    \* 'ZZ4 Q'
    <<"C", "4">>,                                                   \* 'C4'
    <<"C", "4", " ", "Q", " ", "Q">>,                               \* 'C4 Q Q'
    <<>>,                                                           \* ''
    <<" ", "\t">>,                                                  \* ' <TAB>'
    <<"#", " ", "c", "4", " ", "q">>,                               \* '# c4 q'
    <<" ", " ", "#", "C", "4", " ", "Q">>,                          \* '  #C4 Q'
    <<"C", "4", " ", "X">>,                                         \* 'C4 X'
    <<" ", "f", "s", "5", "\t", " ", "h", " ">>,                    \* ' fs5<TAB> h '
    <<"4", "2", "9", "4", "9", "6", "7", "2", "9", "5", " ", "1">>, \* '4294967295 1'
    <<"4", "2", "9", "4", "9", "6", "7", "2", "9", "6", " ", "Q">>, \* '4294967296 Q'
    <<"A", "4", " ", "4", "2", "9", "4", "9", "6", "7", "2", "9", "6">>,\* 'A4 4294967296'
    <<"+", "5", " ", "Q">>,                                         \* '+5 Q'
    <<"0", "0", "7", " ", "e">>,                                    \* '007 e'
    <<"r", "e", "s", "t", " ", "6", "5", "5", "3", "7">>            \* 'rest 65537'
  }

RECURSIVE FilesUpTo(_)
FilesUpTo(n) ==
  IF n = 0 THEN {<<>>}
  ELSE LET shorter == FilesUpTo(n - 1)
       IN  shorter \cup {Append(f, l) : f \in {g \in shorter : Len(g) = n - 1},
                                        l \in LinePool}

\* The three lines of the worked example of the file format
ExampleFile ==
  << <<"E", "4", " ", "Q">>, <<"R", "E", "S", "T", " ", "Q">>,
     <<"4", "4", "0", " ", "H">> >>

\* The directive that names a note symbolically, as the presets do: the
\* constant NOTE_E4 is written E4, REST for NOTE_REST, and WHOLE, HALF,
\* QUARTER, EIGHTH, SIXTEENTH are written W, H, Q, E, S.
NoteSymbol ==
     U32(NOTE_C4) :> <<"C", "4">> @@ U32(NOTE_CS4) :> <<"C", "S", "4">> @@ U32(NOTE_D4) :> <<"D", "4">>
  @@ U32(NOTE_DS4) :> <<"D", "S", "4">> @@ U32(NOTE_E4) :> <<"E", "4">> @@ U32(NOTE_F4) :> <<"F", "4">>
  @@ U32(NOTE_FS4) :> <<"F", "S", "4">> @@ U32(NOTE_G4) :> <<"G", "4">> @@ U32(NOTE_GS4) :> <<"G", "S", "4">>
  @@ U32(NOTE_A4) :> <<"A", "4">> @@ U32(NOTE_AS4) :> <<"A", "S", "4">> @@ U32(NOTE_B4) :> <<"B", "4">>
  @@ U32(NOTE_C5) :> <<"C", "5">> @@ U32(NOTE_CS5) :> <<"C", "S", "5">> @@ U32(NOTE_D5) :> <<"D", "5">>
  @@ U32(NOTE_DS5) :> <<"D", "S", "5">> @@ U32(NOTE_E5) :> <<"E", "5">> @@ U32(NOTE_F5) :> <<"F", "5">>
  @@ U32(NOTE_FS5) :> <<"F", "S", "5">> @@ U32(NOTE_G5) :> <<"G", "5">> @@ U32(NOTE_GS5) :> <<"G", "S", "5">>
  @@ U32(NOTE_A5) :> <<"A", "5">> @@ U32(NOTE_AS5) :> <<"A", "S", "5">> @@ U32(NOTE_B5) :> <<"B", "5">>
  @@ U32(NOTE_C3) :> <<"C", "3">> @@ U32(NOTE_CS3) :> <<"C", "S", "3">> @@ U32(NOTE_D3) :> <<"D", "3">>
  @@ U32(NOTE_DS3) :> <<"D", "S", "3">> @@ U32(NOTE_E3) :> <<"E", "3">> @@ U32(NOTE_F3) :> <<"F", "3">>
  @@ U32(NOTE_FS3) :> <<"F", "S", "3">> @@ U32(NOTE_G3) :> <<"G", "3">> @@ U32(NOTE_GS3) :> <<"G", "S", "3">>
  @@ U32(NOTE_A3) :> <<"A", "3">> @@ U32(NOTE_AS3) :> <<"A", "S", "3">> @@ U32(NOTE_B3) :> <<"B", "3">>
  @@ U32(NOTE_REST) :> <<"R", "E", "S", "T">>

DurationCode ==
     U32(WHOLE) :> <<"W">> @@ U32(HALF) :> <<"H">> @@ U32(QUARTER) :> <<"Q">>
  @@ U32(EIGHTH) :> <<"E">> @@ U32(SIXTEENTH) :> <<"S">>

Directive(note) ==
  NoteSymbol[note.frequency] \o <<" ">> \o DurationCode[note.duration_ms]

\* The Jingle Bells preset written out as a melody file
JingleBellsText ==
  [i \in DOMAIN play_jingle_bells_notes |-> Directive(play_jingle_bells_notes[i])]

Files == FilesUpTo(MaxLines) \cup {ExampleFile, JingleBellsText}

\* ---------------------------------------------------------------------
\* State
\* ---------------------------------------------------------------------
VARIABLES
  pc,       \* where the process is: "start" (main begins), "menu" (main
            \* reads a selection),
            \* "parse", "beep", "gap" (inside a play_* function), "returned"
            \* (the selection's match arm is done), "exit_ok" (main returned
            \* Ok), "exit_err" (main returned Err)
  song,     \* what is playing: "none", "custom" or a preset
  file,     \* play_custom_song: the lines the reader yields
  readErr,  \* play_custom_song: the read after the last line fails
  lineNo,   \* play_custom_song: lines consumed so far
  notes,    \* the notes of the running song
  idx,      \* playback: index of the note the loop is at
  out,      \* stdout of the current menu iteration
  beeps,    \* the kernel_beep calls of the current menu iteration, in order
  speaker,  \* what the last kernel_beep call drove: ioctl argument or bell
  sleeps,   \* the sleeps (ms) since the last kernel_beep call began
  err       \* the io::Error main returned, "none" while running

vars == <<pc, song, file, readErr, lineNo, notes, idx, out, beeps, speaker, sleeps, err>>

Silent == [via |-> "none", arg |-> <<0, 0>>]

\* The locals of a play_* function, gone when it returns
NoLocals ==
  /\ song' = "none"
  /\ file' = <<>>
  /\ readErr' = FALSE
  /\ lineNo' = 0
  /\ notes' = <<>>
  /\ idx' = 0

\* A new menu iteration: nothing printed or played yet
Fresh(said) ==
  /\ out' = said
  /\ beeps' = <<>>
  /\ speaker' = Silent
  /\ sleeps' = <<>>

Init ==
  /\ pc = "start"
  /\ song = "none"
  /\ file = <<>>
  /\ readErr = FALSE
  /\ lineNo = 0
  /\ notes = <<>>
  /\ idx = 0
  /\ out = <<>>
  /\ beeps = <<>>
  /\ speaker = Silent
  /\ sleeps = <<>>
  /\ err = "none"

\* ---------------------------------------------------------------------
\* main: the menu loop (main.rs 527-558)
\* ---------------------------------------------------------------------
\* 513-517: the effective uid is not root; main warns on stderr and returns Ok
NotRoot ==
  /\ pc = "start"
  /\ pc' = "exit_ok"
  /\ UNCHANGED <<song, file, readErr, lineNo, notes, idx, out, beeps, speaker, sleeps, err>>

\* 519-538: root; the Ctrl-C handler is set and the loop prints its first menu
EnterLoop ==
  /\ pc = "start"
  /\ pc' = "menu"
  /\ UNCHANGED <<song, file, readErr, lineNo, notes, idx, out, beeps, speaker, sleeps, err>>

\* 527-538: the loop comes round and prints the menu
ShowMenu ==
  /\ pc = "returned"
  /\ pc' = "menu"
  /\ Fresh(<<>>)
  /\ UNCHANGED <<song, file, readErr, lineNo, notes, idx, err>>

\* 539, 542: flushing the prompt or reading the selection fails
MenuIoFails ==
  /\ pc = "menu"
  /\ pc' = "exit_err"
  /\ err' = "menu_io"
  /\ Fresh(<<>>)
  /\ NoLocals

\* 545-550: a preset is selected; its function prints the banner and starts
\* its loop
SelectPreset(c) ==
  /\ pc = "menu"
  /\ c \in DOMAIN PresetOf
  /\ Fresh(<<Said(Presets[PresetOf[c]].banner, <<>>)>>)
  /\ song' = PresetOf[c]
  /\ notes' = Presets[PresetOf[c]].notes
  /\ idx' = 1
  /\ pc' = "beep"
  /\ UNCHANGED <<file, readErr, lineNo, err>>

\* 552-555
Quit ==
  /\ pc = "menu"
  /\ Fresh(<<Said("Goodbye!", <<>>)>>)
  /\ pc' = "exit_ok"
  /\ NoLocals
  /\ UNCHANGED err

\* 556
InvalidSelection ==
  /\ pc = "menu"
  /\ Fresh(<<Said("Invalid selection, please try again.", <<>>)>>)
  /\ pc' = "returned"
  /\ NoLocals
  /\ UNCHANGED err

\* ---------------------------------------------------------------------
\* play_custom_song (main.rs 372-509), selection "7"
\* ---------------------------------------------------------------------
\* 374, 377: flushing the prompt or reading the path fails; `?` in
\* play_custom_song and at 551 in main
CustomPromptFails ==
  /\ pc = "menu"
  /\ Fresh(<<>>)
  /\ pc' = "exit_err"
  /\ err' = "prompt_io"
  /\ NoLocals

\* 380-383: the path does not exist
CustomNotFound ==
  /\ pc = "menu"
  /\ Fresh(<<Said("File not found: ", <<>>)>>)
  /\ pc' = "returned"
  /\ NoLocals
  /\ UNCHANGED err

\* 438: the path exists and File::open fails; `?` here and at 551
CustomOpenFails ==
  /\ pc = "menu"
  /\ Fresh(<<Said("Loading melody from: ", <<>>)>>)
  /\ pc' = "exit_err"
  /\ err' = "open"
  /\ NoLocals

\* 385-442: the file opens; f is what the reader will yield, e whether the read
\* after f's last line fails instead of reporting the end of the file
CustomOpen(f, e) ==
  /\ Fresh(<<Said("Loading melody from: ", <<>>), Said("Playing custom melody...", <<>>)>>)
  /\ song' = "custom"
  /\ file' = f
  /\ readErr' = e
  /\ lineNo' = 0
  /\ notes' = <<>>
  /\ idx' = 0
  /\ pc' = "parse"
  /\ UNCHANGED err

\* Mutant: every note is played as soon as its line is parsed
ParseLinePlaysAtOnce ==
  /\ pc = "parse"
  /\ lineNo < Len(file)
  /\ LET r == process_line(file[lineNo + 1]) IN
       /\ notes' = IF r.kind = "push" THEN Append(notes, r.note) ELSE notes
       /\ out' = IF r.kind = "warn" THEN Append(out, r.said) ELSE out
       /\ beeps' = IF r.kind = "push" THEN Append(beeps, r.note) ELSE beeps
  /\ lineNo' = lineNo + 1
  /\ UNCHANGED <<pc, song, file, readErr, idx, speaker, sleeps, err>>

\* Mutant: a warning ends the loop (break for continue)
ParseLineStopsAtWarning ==
  /\ pc = "parse"
  /\ lineNo < Len(file)
  /\ LET r == process_line(file[lineNo + 1]) IN
       /\ notes' = IF r.kind = "push" THEN Append(notes, r.note) ELSE notes
       /\ out' = IF r.kind = "warn" THEN Append(out, r.said) ELSE out
       /\ lineNo' = IF r.kind = "warn" THEN Len(file) ELSE lineNo + 1
  /\ UNCHANGED <<pc, song, file, readErr, idx, beeps, speaker, sleeps, err>>

\* 445-494: the reader yields the next line and the loop body runs on it
ParseLine ==
  /\ pc = "parse"
  /\ lineNo < Len(file)
  /\ LET r == process_line(file[lineNo + 1]) IN
       /\ notes' = IF r.kind = "push" THEN Append(notes, r.note) ELSE notes
       /\ out' = IF r.kind = "warn" THEN Append(out, r.said) ELSE out
  /\ lineNo' = lineNo + 1
  /\ UNCHANGED <<pc, song, file, readErr, idx, beeps, speaker, sleeps, err>>

\* 446: the reader yields Err; `?` here and at 551
ReadFails ==
  /\ pc = "parse"
  /\ lineNo = Len(file)
  /\ readErr
  /\ pc' = "exit_err"
  /\ err' = "read"
  /\ NoLocals
  /\ UNCHANGED <<out, beeps, speaker, sleeps>>

\* Mutant: no check for an empty sequence before the playback loop
ParseEndPlaysAnyway ==
  /\ pc = "parse"
  /\ lineNo = Len(file)
  /\ ~readErr
  /\ pc' = "beep"
  /\ idx' = 1
  /\ UNCHANGED <<out, song, file, readErr, lineNo, notes, beeps, speaker, sleeps, err>>

\* 445, 496-502: the reader is exhausted; with no notes the function reports
\* it and returns, else the playback loop starts
ParseEnd ==
  /\ pc = "parse"
  /\ lineNo = Len(file)
  /\ ~readErr
  /\ IF notes = <<>>
     THEN /\ out' = Append(out, Said("No valid notes found in the file.", <<>>))
          /\ pc' = "returned"
          /\ NoLocals
     ELSE /\ pc' = "beep"
          /\ idx' = 1
          /\ UNCHANGED <<out, song, file, readErr, lineNo, notes>>
  /\ UNCHANGED <<beeps, speaker, sleeps, err>>

\* ---------------------------------------------------------------------
\* The playback loops (main.rs 174-178, 207-211, ..., 502-506)
\* ---------------------------------------------------------------------
Gap(s) == IF s = "custom" THEN 10 ELSE Presets[s].gap

\* Mutant: the fallback branches return before the sleep
KernelBeepBellReturnsEarly(how) ==
  /\ pc = "beep"
  /\ idx \in DOMAIN notes
  /\ beeps' = Append(beeps, notes[idx])
  /\ speaker' = [via |-> IF how = "ioctl" THEN "ioctl" ELSE "bell",
                 arg |-> beep_arg(notes[idx].frequency, notes[idx].duration_ms)]
  /\ sleeps' = IF how = "ioctl" THEN <<notes[idx].duration_ms>> ELSE <<>>
  /\ pc' = "gap"
  /\ UNCHANGED <<song, file, readErr, lineNo, notes, idx, err, out>>

\* kernel_beep (85-122) on the note at idx.  how: "ioctl" the console opens
\* and the ioctl returns 0; "bell" the console does not open or the ioctl
\* fails, and the bell character is flushed; "flush_err" as "bell", and the
\* flush fails: `?` at 108/115, in the loop and in main.
KernelBeep(how) ==
  /\ pc = "beep"
  /\ idx \in DOMAIN notes
  /\ LET note == notes[idx]
         arg  == beep_arg(note.frequency, note.duration_ms) IN
       /\ beeps' = Append(beeps, note)
       /\ CASE how = "ioctl" ->
                 /\ speaker' = [via |-> "ioctl", arg |-> arg]
                 /\ sleeps' = <<note.duration_ms>>
                 /\ pc' = "gap"
                 /\ UNCHANGED <<song, file, readErr, lineNo, notes, idx, err>>
            [] how = "bell" ->
                 /\ speaker' = [via |-> "bell", arg |-> arg]
                 /\ sleeps' = <<note.duration_ms>>
                 /\ pc' = "gap"
                 /\ UNCHANGED <<song, file, readErr, lineNo, notes, idx, err>>
            [] how = "flush_err" ->
                 /\ speaker' = [via |-> "bell", arg |-> arg]
                 /\ sleeps' = <<>>
                 /\ pc' = "exit_err"
                 /\ err' = "bell_flush"
                 /\ NoLocals
  /\ UNCHANGED out

\* The sleep after kernel_beep returned Ok, then the next iteration or, after
\* the last note, the return to the menu
BreakBetweenNotes ==
  /\ pc = "gap"
  /\ sleeps' = Append(sleeps, U32(Gap(song)))
  /\ IF idx < Len(notes)
     THEN /\ idx' = idx + 1
          /\ pc' = "beep"
          /\ UNCHANGED <<song, file, readErr, lineNo, notes>>
     ELSE /\ pc' = "returned"
          /\ NoLocals
  /\ UNCHANGED <<out, beeps, speaker, err>>

Next ==
  \/ NotRoot
  \/ EnterLoop
  \/ ShowMenu
  \/ MenuIoFails
  \/ pc = "menu" /\ \E c \in DOMAIN PresetOf : SelectPreset(c)
  \/ Quit
  \/ InvalidSelection
  \/ CustomPromptFails
  \/ CustomNotFound
  \/ CustomOpenFails
  \/ pc = "menu" /\ \E f \in Files, e \in BOOLEAN : CustomOpen(f, e)
  \/ ParseLine
  \/ ReadFails
  \/ ParseEnd
  \/ pc = "beep" /\ \E how \in {"ioctl", "bell", "flush_err"} : KernelBeep(how)
  \/ BreakBetweenNotes

Spec == Init /\ [][Next]_vars

TypeOK ==
  /\ pc \in {"start", "menu", "parse", "beep", "gap", "returned", "exit_ok", "exit_err"}
  /\ err \in {"none", "menu_io", "prompt_io", "open", "read", "bell_flush"}
  /\ lineNo \in 0..Len(file)
  /\ idx \in 0..Len(notes)

\* =====================================================================
\* Properties
\* =====================================================================
\* The vocabulary of the file format, stated on the text itself: positions
\* and characters, not the parser's intermediate values.
Last(s) == s[Len(s)]
NoValidNotes == "No valid notes found in the file."

\* Only whitespace, or '#' as the first character that is not whitespace
BlankOrComment(l) ==
  \/ \A i \in DOMAIN l : is_whitespace(l[i])
  \/ \E i \in DOMAIN l : /\ l[i] = "#"
                         /\ \A j \in 1..(i - 1) : is_whitespace(l[j])

\* The positions where a token starts, and the token that starts at p
TokenStarts(l) ==
  {i \in DOMAIN l : ~is_whitespace(l[i]) /\ (i = 1 \/ is_whitespace(l[i - 1]))}
TokenEnd(l, p) ==
  CHOOSE e \in p..Len(l) : /\ \A k \in p..e : ~is_whitespace(l[k])
                          /\ (e = Len(l) \/ is_whitespace(l[e + 1]))
\* The n-th token of l (l has at least n)
Token(l, n) ==
  CHOOSE t \in {SubSeq(l, p, TokenEnd(l, p)) :
                  p \in {q \in TokenStarts(l) :
                           Cardinality({r \in TokenStarts(l) : r < q}) = n - 1}} : TRUE

\* Two tokens that differ at most in the case of their letters
SameLetter(a, b) ==
  \/ a = b
  \/ \E i \in DOMAIN LowerLetters : {a, b} = {LowerLetters[i], UpperLetters[i]}
SameIgnoringCase(s, t) ==
  Len(s) = Len(t) /\ \A i \in DOMAIN s : SameLetter(s[i], t[i])
IsKey(map, tok) == \E k \in DOMAIN map : SameIgnoringCase(tok, k)
KeyFor(map, tok) == CHOOSE k \in DOMAIN map : SameIgnoringCase(tok, k)

\* A token resolves when it names a table key or parses as an unsigned integer
Resolves(map, tok) == IsKey(map, tok) \/ parse_u32(tok).ok
ValueOf(map, tok) ==
  IF IsKey(map, tok) THEN map[KeyFor(map, tok)] ELSE parse_u32(tok).val

\* A directive line that is malformed, and one that is valid
Malformed(l) ==
  /\ ~BlankOrComment(l)
  /\ \/ Cardinality(TokenStarts(l)) # 2
     \/ \E note \in {Token(l, 1)} : ~Resolves(note_map, note)
     \/ \E duration \in {Token(l, 2)} : ~Resolves(duration_map, duration)
ValidLine(l) == ~BlankOrComment(l) /\ ~Malformed(l)

\* The line the loop of play_custom_song is about to run on, if any
NextLines == {file[i] : i \in {j \in DOMAIN file : pc = "parse" /\ j = lineNo + 1}}

\* C1: every tone event in the sequence the custom-melody parser builds has
\* a duration above zero, whatever the lines, numeric durations included.
\* (Stated as claimed; the line "440 0" refutes it.)
C1_DurationsPositive ==
  song = "custom" => \A i \in DOMAIN notes : notes[i].duration_ms # <<0, 0>>

\* C2: when the melody source cannot be opened or read, the failure is
\* reported, the process does not terminate and control returns to the menu.
\* (Stated as claimed; an open or read failure makes main return Err.)
C2_SourceFailureKeepsRunning ==
  ~(pc = "exit_err" /\ err \in {"open", "read"})

\* What the loop does with a malformed line, and the events counted so far
C3_Step ==
  \A l \in NextLines : Malformed(l) =>
     /\ pc' = "parse"
     /\ lineNo' = lineNo + 1
     /\ file' = file
     /\ notes' = notes
     /\ Len(out') = Len(out) + 1
     /\ SubSeq(out', 1, Len(out)) = out
     /\ Last(out').msg \in Warnings
C3_Counted ==
  pc = "parse" =>
     Len(notes) = Cardinality({i \in 1..lineNo : \E l \in {file[i]} : ValidLine(l)})
\* C3: a malformed directive line (not two tokens, or a note or duration
\* token that is neither a table key nor an unsigned integer) prints one
\* warning, adds no tone event and leaves the parse running on the next line;
\* every valid line read so far, before or after it, has its event in notes.
C3_MalformedLineSkipped == []C3_Counted /\ [][C3_Step]_vars

\* A malformed line was skipped with a warning and the valid line after it was
\* parsed into an event.
C3_Witness ==
  /\ pc = "parse"
  /\ lineNo = 2
  /\ \E l \in {file[1]} : Malformed(l)
  /\ \E l \in {file[2]} : ValidLine(l)
  /\ Len(notes) = 1
  /\ Len(out) = 3
  /\ Last(out).msg \in Warnings

\* The end of the file with no event parsed, and the state after the report
C4_Step ==
  (pc = "parse" /\ lineNo = Len(file) /\ ~readErr /\ notes = <<>>) =>
     /\ pc' = "returned"
     /\ Last(out').msg = NoValidNotes
     /\ beeps' = <<>>
     /\ speaker' = Silent
C4_NoBeepAfterReport ==
  (out # <<>> /\ Last(out).msg = NoValidNotes) => (beeps = <<>> /\ pc = "returned")
\* C4: when the source was read to its end and no line gave a tone event,
\* the operation prints "No valid notes found in the file." and returns to
\* the menu loop without a single kernel_beep call.
C4_EmptyResultNoPlayback == []C4_NoBeepAfterReport /\ [][C4_Step]_vars

\* A file whose lines were all skipped, one of them with a warning, was read
\* to its end: the report is printed, nothing was played, main is back in
\* its loop.
C4_Witness ==
  /\ pc = "returned"
  /\ Len(out) = 4
  /\ out[3].msg \in Warnings
  /\ out[4].msg = NoValidNotes
  /\ beeps = <<>>
  /\ speaker = Silent

\* What the loop does with a blank or comment line
C5_Step ==
  \A l \in NextLines : BlankOrComment(l) =>
     /\ notes' = notes
     /\ out' = out
     /\ beeps' = beeps
     /\ pc' = "parse"
     /\ lineNo' = lineNo + 1
\* C5: a line that is blank or whose first non-blank character is '#' gives
\* no tone event and no warning, at any position in the file.
C5_BlankAndCommentSilent == [][C5_Step]_vars

\* A comment line after a valid line was consumed: one event, no warning.
C5_Witness ==
  /\ pc = "parse"
  /\ lineNo = 2
  /\ \E l \in {file[1]} : ValidLine(l)
  /\ \E l \in {file[2]} : BlankOrComment(l)
  /\ file[2] # <<>>
  /\ Len(notes) = 1
  /\ Len(out) = 2

\* The tone event a valid line stands for
EventOf(l) ==
  CHOOSE e \in {[frequency |-> ValueOf(note_map, n), duration_ms |-> ValueOf(duration_map, d)] :
                  n \in {Token(l, 1)}, d \in {Token(l, 2)}} : TRUE

\* The events of the valid lines among the first n lines of f, in line order
ValidUpTo(f, n) == {i \in 1..n : \E l \in {f[i]} : ValidLine(l)}
NthOf(S, k) == CHOOSE i \in S : Cardinality({j \in S : j < i}) = k - 1
EventsOf(f, n) ==
  CHOOSE s \in {[k \in 1..Cardinality(V) |-> EventOf(f[NthOf(V, k)])] :
                  V \in {ValidUpTo(f, n)}} : TRUE

\* C6: the parsed sequence is exactly the tone events of the valid lines, one
\* per valid line, in the order of the lines, skipped lines leaving no gap;
\* the lines E4 Q, REST Q, 440 H give [{330,250},{0,250},{440,500}].
C6_ParsedInLineOrder ==
  /\ (song = "custom" /\ pc \in {"parse", "beep", "gap"}) =>
        notes = EventsOf(file, lineNo)
  /\ (song = "custom" /\ pc \in {"beep", "gap"}) => lineNo = Len(file)
  /\ (song = "custom" /\ file = ExampleFile /\ lineNo = 3) =>
        notes = <<NoteNew(330, 250), NoteNew(0, 250), NoteNew(440, 500)>>

\* The example file was parsed to its end and playback is about to start.
C6_Witness ==
  /\ song = "custom"
  /\ pc = "beep"
  /\ idx = 1
  /\ file = ExampleFile
  /\ notes = <<NoteNew(330, 250), NoteNew(0, 250), NoteNew(440, 500)>>

\* The lines that differ from l only in the case of letters
SwapCase(c) ==
  IF c \in Range(LowerLetters) THEN UpperLetters[IndexOf(LowerLetters, c)]
  ELSE IF c \in Range(UpperLetters) THEN LowerLetters[IndexOf(UpperLetters, c)]
  ELSE c
Letters == Range(LowerLetters) \cup Range(UpperLetters)
CaseVariants(l) ==
  {[i \in DOMAIN l |-> IF i \in S THEN SwapCase(l[i]) ELSE l[i]] :
     S \in SUBSET {i \in DOMAIN l : l[i] \in Letters}}

\* The loop does with a line what it would do with each of its case variants
C7_Step ==
  \A l \in NextLines : \A v \in CaseVariants(l) : \E r \in {process_line(v)} :
     notes' = IF r.kind = "push" THEN Append(notes, r.note) ELSE notes
\* C7: a line's tone event does not depend on the case of the letters of its
\* note and duration tokens: what the parser does with a line is what it
\* would do with any line differing from it only in letter case (c4 q, C4 Q
\* and C4 q all give {262, 250}).
C7_CaseInsensitive == [][C7_Step]_vars

\* c4 q and C4 Q were parsed, each into {262, 250}.
C7_Witness ==
  /\ pc = "parse"
  /\ lineNo = 2
  /\ file = << <<"c", "4", " ", "q">>, <<"C", "4", " ", "Q">> >>
  /\ notes = <<NoteNew(262, 250), NoteNew(262, 250)>>

\* Decimal numerals: a token of digits only, its digits without leading
\* zeros, the numeral of a u32, and whether a numeral is at most u32::MAX
BareLiteral(tok) == tok # <<>> /\ \A i \in DOMAIN tok : tok[i] \in Range(DigitChars)
Significant(tok) ==
  LET zeros == Cardinality({i \in DOMAIN tok : \A j \in 1..i : tok[j] = "0"})
  IN  IF zeros = Len(tok) THEN <<"0">> ELSE SubSeq(tok, zeros + 1, Len(tok))
DivTen(v) == <<v[1] \div 10, ((v[1] % 10) * Half + v[2]) \div 10>>
ModTen(v) == ((v[1] % 10) * Half + v[2]) % 10
RECURSIVE Numeral(_)
Numeral(v) ==
  IF v[1] = 0 /\ v[2] < 10 THEN <<DigitChars[v[2] + 1]>>
  ELSE CHOOSE s \in {Numeral(q) \o <<DigitChars[ModTen(v) + 1]>> : q \in {DivTen(v)}} : TRUE
U32MaxNumeral == <<"4", "2", "9", "4", "9", "6", "7", "2", "9", "5">>
NumeralGreater(a, b) ==
  \/ Len(a) > Len(b)
  \/ /\ Len(a) = Len(b)
     /\ \E i \in DOMAIN a : /\ IndexOf(DigitChars, a[i]) > IndexOf(DigitChars, b[i])
                            /\ \A j \in 1..(i - 1) : a[j] = b[j]
FitsU32(tok) == \E n \in {Significant(tok)} : ~NumeralGreater(n, U32MaxNumeral)

\* A line of two tokens, each a table key or a bare literal, at least one of
\* them a literal: n and d are its tokens
LiteralLine(l, n, d) ==
  /\ ~BlankOrComment(l)
  /\ Cardinality(TokenStarts(l)) = 2
  /\ n = Token(l, 1)
  /\ d = Token(l, 2)
  /\ IsKey(note_map, n) \/ BareLiteral(n)
  /\ IsKey(duration_map, d) \/ BareLiteral(d)
  /\ BareLiteral(n) \/ BareLiteral(d)

\* The line is accepted: one event more, whose fields are the literals' values
\* (the table values for a key), and no warning
AcceptedAsWritten(n, d) ==
  /\ Len(notes') = Len(notes) + 1
  /\ SubSeq(notes', 1, Len(notes)) = notes
  /\ \E e \in {Last(notes')} :
       /\ IF BareLiteral(n) THEN Numeral(e.frequency) = Significant(n)
          ELSE e.frequency = ValueOf(note_map, n)
       /\ IF BareLiteral(d) THEN Numeral(e.duration_ms) = Significant(d)
          ELSE e.duration_ms = ValueOf(duration_map, d)
  /\ out' = out
RejectedWithWarning ==
  /\ notes' = notes
  /\ Len(out') = Len(out) + 1
  /\ Last(out').msg \in {WarnNote, WarnDuration}

Tokens(l) == {Token(l, k) : k \in 1..Cardinality(TokenStarts(l))}

\* Every literal line is accepted, whatever the magnitude of its literals
C8_Original_Step ==
  \A l \in NextLines : \A n \in Tokens(l), d \in Tokens(l) :
     LiteralLine(l, n, d) => AcceptedAsWritten(n, d)
\* C8 as claimed: a bare unsigned integer literal of any magnitude is
\* accepted and is the frequency or the duration.  (The literal 4294967296
\* refutes it.)
C8_AnyMagnitudeAccepted == [][C8_Original_Step]_vars

\* A literal line is accepted when its literals fit a u32, else rejected
C8_Step ==
  \A l \in NextLines : \A n \in Tokens(l), d \in Tokens(l) :
     LiteralLine(l, n, d) =>
        IF (BareLiteral(n) => FitsU32(n)) /\ (BareLiteral(d) => FitsU32(d))
        THEN AcceptedAsWritten(n, d)
        ELSE RejectedWithWarning
\* C8, amended: a bare unsigned integer literal in place of a note or of a
\* duration is accepted and is exactly the frequency or the duration when
\* its value is at most 4294967295 (u32::MAX), with no other limit; a greater
\* literal makes the line malformed: a warning, no event.
C8_LiteralsUpToU32Max == [][C8_Step]_vars

\* The line 4294967295 1 was accepted: frequency u32::MAX, duration 1.
C8_Witness ==
  /\ pc = "parse"
  /\ lineNo > 0
  /\ file[lineNo] = <<"4", "2", "9", "4", "9", "6", "7", "2", "9", "5", " ", "1">>
  /\ notes # <<>>
  /\ Last(notes) = [frequency |-> <<Half - 1, Half - 1>>, duration_ms |-> <<0, 1>>]

Playing == pc \in {"beep", "gap"}

\* C9 as claimed: between one event and the next the thread is suspended
\* for the exact duration of the first.  (The break after every note
\* refutes it.)
C9_ExactDurationBetweenEvents ==
  (song = "custom" /\ pc = "beep" /\ idx > 1) =>
     sleeps = <<notes[idx - 1].duration_ms>>

\* The calls so far are a prefix of the notes; the sleeps since the last call;
\* how the loop leaves a note
C9_InOrder ==
  Playing =>
     /\ idx \in DOMAIN notes
     /\ Len(beeps) = IF pc = "beep" THEN idx - 1 ELSE idx
     /\ beeps = SubSeq(notes, 1, Len(beeps))
C9_Timing ==
  /\ (pc = "gap") => sleeps = <<notes[idx].duration_ms>>
  /\ (pc = "beep" /\ idx > 1) =>
        sleeps = <<notes[idx - 1].duration_ms, U32(Gap(song))>>
  /\ (pc = "beep" /\ song = "custom" /\ idx > 1) =>
        sleeps = <<notes[idx - 1].duration_ms, <<0, 10>> >>
C9_Step ==
  /\ (Playing /\ pc' = "returned") =>
        /\ beeps' = notes
        /\ sleeps' = <<Last(notes).duration_ms, U32(Gap(song))>>
  /\ (Playing /\ pc' = "exit_err") =>
        /\ beeps' = SubSeq(notes, 1, idx)
        /\ sleeps' = <<>>
  /\ (pc = "beep" /\ Playing') =>
        /\ pc' = "gap"
        /\ beeps' = Append(beeps, notes[idx])
\* C9, amended: playback is strictly sequential: the tone events go to
\* kernel_beep one at a time, in sequence order, none twice, and all of them
\* when the loop runs to its end (a failed flush of the fallback bell ends the
\* process after the event it was called for); after each call that returns,
\* the thread sleeps for that event's exact duration and then for the fixed
\* break between notes (10 ms for a custom melody) before the next event is
\* emitted.
C9_SequentialPlayback == [](C9_InOrder /\ C9_Timing) /\ [][C9_Step]_vars

\* A custom melody is about to emit its second event: the first went to
\* kernel_beep, and the thread slept its duration and the 10 ms break.
C9_Witness ==
  /\ song = "custom"
  /\ pc = "beep"
  /\ idx = 2
  /\ beeps = <<notes[1]>>
  /\ sleeps = <<notes[1].duration_ms, <<0, 10>> >>

\* C10: the Jingle Bells preset, written as text directives (note name and
\* duration code of every note, one per line) and parsed by the custom-melody
\* parser, gives the preset's own sequence, element for element.
C10_JingleBellsRoundTrip ==
  (song = "custom" /\ file = JingleBellsText) =>
     /\ notes = SubSeq(play_jingle_bells_notes, 1, lineNo)
     /\ out = <<Said("Loading melody from: ", <<>>), Said("Playing custom melody...", <<>>)>>
     /\ Playing => lineNo = Len(play_jingle_bells_notes)

\* The text of Jingle Bells was parsed to its end: the notes are the preset's.
C10_Witness ==
  /\ song = "custom"
  /\ file = JingleBellsText
  /\ pc = "beep"
  /\ idx = 1
  /\ Len(notes) = 36
  /\ notes = Presets["jingle"].notes

\* The parse phase makes no sound; a sound means the whole source was read;
\* stdout is still once a tone was emitted; a failed read ends the process
\* with nothing played
C11_SilentWhileParsing ==
  pc = "parse" => (beeps = <<>> /\ speaker = Silent /\ sleeps = <<>>)
C11_PlayedAfterWholeSource ==
  (song = "custom" /\ beeps # <<>>) =>
     (pc \in {"beep", "gap"} /\ lineNo = Len(file) /\ ~readErr)
C11_NothingPlayedOnReadError ==
  err = "read" => (pc = "exit_err" /\ beeps = <<>> /\ speaker = Silent)
C11_Step ==
  /\ (beeps # <<>> /\ beeps' # <<>>) => out' = out
  /\ (pc = "parse" /\ lineNo = Len(file) /\ readErr) =>
        (pc' = "exit_err" /\ err' = "read" /\ beeps' = <<>>)
  /\ (pc = "parse" /\ beeps' # <<>>) => FALSE
\* C11: in the custom-melody operation parsing and playback are two ordered
\* phases: no tone is emitted before every line of the source was read and
\* processed, so every warning is printed before the first tone, and a read
\* error on any line ends the operation with no tone emitted at all, even
\* when lines before it were valid.
C11_ParseThenPlay ==
  /\ [](C11_SilentWhileParsing /\ C11_PlayedAfterWholeSource
         /\ C11_NothingPlayedOnReadError)
  /\ [][C11_Step]_vars

\* Two lines were read, one giving a warning and one an event; the next read
\* fails, and nothing has been played.
C11_Witness ==
  /\ pc = "parse"
  /\ readErr
  /\ lineNo = 2
  /\ lineNo = Len(file)
  /\ Len(notes) = 1
  /\ Len(out) = 3
  /\ out[3].msg \in Warnings
  /\ beeps = <<>>
====
